---- MODULE Spec2Model ----
(***************************************************************************)
(* Model of script.py: the polling loop of main, the key/value parser,     *)
(* the manifest reader and the log heuristics.                             *)
(***************************************************************************)
EXTENDS Integers, Sequences, FiniteSets, TLC

(***************************************************************************)
(* Bounds of the model.                                                    *)
(***************************************************************************)
MaxMinutes == 3
MaxBytes == 1
MaxRecv == 1
MaxTime == 1

VARIABLES
    \* ---- main: the polling loop (script.py 232-329) ----
    pc,                          \* "loop", "done" (loop left), "raised" (time.sleep raised)
    minutes,                     \* args.minutes
    interval,                    \* args.interval
    appid, lib,                  \* the tracked pair
    last_bd,                     \* bytes-downloaded baseline (last_bs is written and never read)
    net0, t0,                    \* network-counter baseline and its timestamp
    no_download_progress_streak,
    no_net_streak,
    minute_idx,                  \* the for loop's index; 0 before the first iteration
    status,                      \* the label of the last printed line ("" before any)
    printed,                     \* number of lines printed by the loop
    \* ---- observation of the loop's runs ----
    seen,                        \* the samples read by the last tick
    lastKind, prevKind,          \* what the last tick and the one before it did
    quietRun,                    \* consecutive evaluated ticks with no change and no log signal
    resyncs,                     \* number of resynchronization ticks so far
    \* ---- infer_status_from_logs / infer_speed_from_logs (script.py 156-191) ----
    log,                         \* the lines of content_log.txt, oldest first
    target,                      \* the appid argument
    status_res, speed_res,       \* the two results
    inferred,                    \* which of the two functions have been applied
    \* ---- parse_keyvalues (script.py 30-65) ----
    text,                        \* the full text
    cut,                         \* length of the truncated variant
    full_tree, prefix_tree,      \* the parse of the text and of its first cut characters
    parsed,                      \* which of the two parses have been done
    \* ---- get_app_info (script.py 106-129) ----
    manifest,                    \* the manifest file: readable or not, and its text
    info,                        \* the returned record
    info_done

loopVars == <<pc, minutes, interval, appid, lib, last_bd, net0, t0,
              no_download_progress_streak, no_net_streak, minute_idx, status,
              printed, seen, lastKind, prevKind, quietRun, resyncs>>

logVars == <<log, target, status_res, speed_res, inferred>>

parseVars == <<text, cut, full_tree, prefix_tree, parsed>>

manVars == <<manifest, info, info_done>>

vars == <<loopVars, logVars, parseVars, manVars>>

(***************************************************************************)
(* The polling loop of main.                                               *)
(***************************************************************************)
None == "None"

AppIds == {"100", "200"}
Libs == {"L1", "L2"}
Pairs == AppIds \X Libs

\* find_active_downloads: the list is used only through its emptiness and its
\* first element, so a result is <<>> or <<first>>
ActiveLists == {<<>>} \cup {<<p>> : p \in Pairs}

\* the default of --interval, and a value time.sleep rejects
Intervals == {-1, 60}

LogStatuses == {None, "PAUSED", "DOWNLOADING"}

NoFirst == <<>>

NoSample == [first |-> NoFirst, bd |-> 0, recv |-> 0, t |-> 0, log_status |-> None]

Max(a, b) == IF a >= b THEN a ELSE b

\* line 291
RecvDelta(net1, n0) == Max(0, net1 - n0)

StreakAfterStuck(streak, unchanged) == IF unchanged THEN 1 ELSE 0

\* lines 294-297 and 306-309
StreakAfter(streak, unchanged) == IF unchanged THEN streak + 1 ELSE 0

StatusLabelNeedsBoth(log_status, nn, np) ==
    IF log_status = "PAUSED" THEN "PAUSED"
    ELSE IF log_status = "DOWNLOADING" THEN "DOWNLOADING"
    ELSE IF nn >= 2 /\ np >= 2 THEN "WAITING/STOPPED"
    ELSE IF np >= 2 THEN "DOWNLOADING"
    ELSE "UNKNOWN"

\* lines 311-323; the labels stand for the printed words
\* PAUSED = "ПАУЗА", DOWNLOADING = "ЗАГРУЗКА", WAITING/STOPPED = "ОЖИДАНИЕ/СТОП",
\* UNKNOWN = "НЕИЗВЕСТНО"
StatusLabel(log_status, nn, np) ==
    IF log_status = "PAUSED" THEN "PAUSED"
    ELSE IF log_status = "DOWNLOADING" THEN "DOWNLOADING"
    ELSE IF nn >= 2 /\ np >= 2 THEN "WAITING/STOPPED"
    ELSE IF nn >= 2 THEN "WAITING/STOPPED"
    ELSE IF np >= 2 THEN "DOWNLOADING"
    ELSE "UNKNOWN"

LoopHasNextShort(idx, n) == idx + 1 < n

\* line 264: range(1, args.minutes + 1) has a next index after idx
LoopHasNext(idx, n) == idx + 1 <= n

\* state after lines 246-262: a download was found and sampled
InitLoop ==
    /\ pc = "loop"
    /\ minutes \in -1..MaxMinutes
    /\ interval \in Intervals
    /\ \E active \in ActiveLists :
          /\ active # <<>>
          /\ appid = active[1][1]
          /\ lib = active[1][2]
    /\ last_bd \in 0..MaxBytes
    /\ net0 \in 0..MaxRecv
    /\ t0 \in 0..MaxTime
    /\ no_download_progress_streak = 0
    /\ no_net_streak = 0
    /\ minute_idx = 0
    /\ status = ""
    /\ printed = 0
    /\ seen = NoSample
    /\ lastKind = "init"
    /\ prevKind = "init"
    /\ quietRun = 0
    /\ resyncs = 0

\* the loop is not running
IdleLoop ==
    /\ pc = "idle"
    /\ minutes = 0
    /\ interval = 0
    /\ appid = ""
    /\ lib = ""
    /\ last_bd = 0
    /\ net0 = 0
    /\ t0 = 0
    /\ no_download_progress_streak = 0
    /\ no_net_streak = 0
    /\ minute_idx = 0
    /\ status = ""
    /\ printed = 0
    /\ seen = NoSample
    /\ lastKind = "init"
    /\ prevKind = "init"
    /\ quietRun = 0
    /\ resyncs = 0

\* line 265 with a negative interval: time.sleep raises ValueError
SleepRaises ==
    /\ pc = "loop"
    /\ UNCHANGED <<logVars, parseVars, manVars>>
    /\ LoopHasNext(minute_idx, minutes)
    /\ interval < 0
    /\ pc' = "raised"
    /\ minute_idx' = minute_idx + 1
    /\ lastKind' = "raise"
    /\ prevKind' = lastKind
    /\ UNCHANGED <<minutes, interval, appid, lib, last_bd, net0, t0,
                   no_download_progress_streak, no_net_streak, status, printed,
                   seen, quietRun, resyncs>>

\* lines 264-269: discovery yields no active item
TickBreak ==
    /\ pc = "loop"
    /\ UNCHANGED <<logVars, parseVars, manVars>>
    /\ LoopHasNext(minute_idx, minutes)
    /\ interval >= 0
    /\ minute_idx' = minute_idx + 1
    /\ pc' = "done"
    /\ seen' = NoSample
    /\ lastKind' = "break"
    /\ prevKind' = lastKind
    /\ UNCHANGED <<minutes, interval, appid, lib, last_bd, net0, t0,
                   no_download_progress_streak, no_net_streak, status, printed,
                   quietRun, resyncs>>

TickResyncKeepsStreaks ==
    /\ pc = "loop"
    /\ UNCHANGED <<logVars, parseVars, manVars>>
    /\ LoopHasNext(minute_idx, minutes)
    /\ interval >= 0
    /\ \E active_now \in ActiveLists, bd \in 0..MaxBytes,
          net \in 0..MaxRecv, t \in 0..MaxTime :
          /\ active_now # <<>>
          /\ active_now[1][1] # appid \/ active_now[1][2] # lib
          /\ appid' = active_now[1][1]
          /\ lib' = active_now[1][2]
          /\ last_bd' = bd
          /\ net0' = net
          /\ t0' = t
          /\ seen' = [first |-> active_now[1], bd |-> bd, recv |-> net,
                      t |-> t, log_status |-> None]
    /\ UNCHANGED <<no_download_progress_streak, no_net_streak>>
    /\ minute_idx' = minute_idx + 1
    /\ lastKind' = "resync"
    /\ prevKind' = lastKind
    /\ quietRun' = 0
    /\ resyncs' = resyncs + 1
    /\ UNCHANGED <<pc, minutes, interval, status, printed>>

\* lines 264-282: the first discovery result differs from the tracked pair
TickResync ==
    /\ pc = "loop"
    /\ UNCHANGED <<logVars, parseVars, manVars>>
    /\ LoopHasNext(minute_idx, minutes)
    /\ interval >= 0
    /\ \E active_now \in ActiveLists, bd \in 0..MaxBytes,
          net \in 0..MaxRecv, t \in 0..MaxTime :
          /\ active_now # <<>>
          /\ active_now[1][1] # appid \/ active_now[1][2] # lib
          /\ appid' = active_now[1][1]
          /\ lib' = active_now[1][2]
          /\ last_bd' = bd
          /\ net0' = net
          /\ t0' = t
          /\ seen' = [first |-> active_now[1], bd |-> bd, recv |-> net,
                      t |-> t, log_status |-> None]
    /\ no_download_progress_streak' = 0
    /\ no_net_streak' = 0
    /\ minute_idx' = minute_idx + 1
    /\ lastKind' = "resync"
    /\ prevKind' = lastKind
    /\ quietRun' = 0
    /\ resyncs' = resyncs + 1
    /\ UNCHANGED <<pc, minutes, interval, status, printed>>

\* lines 264-272 and 284-329: an evaluated tick, which prints one line
\* (the speed and progress texts of the line are computed from the samples
\* and kept nowhere, so only the label and the count of lines are state)
TickEval ==
    /\ pc = "loop"
    /\ UNCHANGED <<logVars, parseVars, manVars>>
    /\ LoopHasNext(minute_idx, minutes)
    /\ interval >= 0
    /\ \E active_now \in ActiveLists, bd \in 0..MaxBytes,
          net1 \in 0..MaxRecv, t1 \in 0..MaxTime, log_status \in LogStatuses :
          /\ active_now # <<>>
          /\ active_now[1][1] = appid /\ active_now[1][2] = lib
          /\ LET recv_delta == RecvDelta(net1, net0)
                 nn == StreakAfter(no_net_streak, recv_delta = 0)
                 np == StreakAfter(no_download_progress_streak, bd = last_bd)
             IN  /\ no_net_streak' = nn
                 /\ no_download_progress_streak' = np
                 /\ status' = StatusLabel(log_status, nn, np)
                 /\ quietRun' = IF recv_delta = 0 /\ bd = last_bd /\ log_status = None
                                THEN quietRun + 1 ELSE 0
          /\ last_bd' = bd
          /\ net0' = net1
          /\ t0' = t1
          /\ seen' = [first |-> active_now[1], bd |-> bd, recv |-> net1,
                      t |-> t1, log_status |-> log_status]
    /\ printed' = printed + 1
    /\ minute_idx' = minute_idx + 1
    /\ lastKind' = "eval"
    /\ prevKind' = lastKind
    /\ UNCHANGED <<pc, minutes, interval, appid, lib, resyncs>>

\* line 264: the range is exhausted
LoopExit ==
    /\ pc = "loop"
    /\ UNCHANGED <<logVars, parseVars, manVars>>
    /\ ~LoopHasNext(minute_idx, minutes)
    /\ pc' = "done"
    /\ UNCHANGED <<minutes, interval, appid, lib, last_bd, net0, t0,
                   no_download_progress_streak, no_net_streak, minute_idx, status,
                   printed, seen, lastKind, prevKind, quietRun, resyncs>>

(***************************************************************************)
(* Log heuristics.  A log line is a sequence of words; the regular         *)
(* expressions are applied word by word.                                   *)
(***************************************************************************)
MaxLogLen == 3

\* lines 131-146 are IGNORECASE: the words are given in one spelling
AppIdWords == {"AppID"}

NumberWords == {"100", "200", "12", "1", "2"}

DigitCount(w) == CASE w \in {"100", "200"} -> 3 [] w = "12" -> 2 [] OTHER -> 1

NumberValue(w) ==
    CASE w = "100" -> 100 [] w = "200" -> 200 [] w = "12" -> 12 [] w = "1" -> 1 [] OTHER -> 2

UnitWords == {"KB/s", "MB/s", "GB/s", "Kbit/s", "Mbit/s", "Gbit/s"}

\* line 131: positions where APPID_RE matches (AppID, then 3 to 10 digits)
AppIdMatches(line) ==
    {i \in 1..(Len(line) - 1) :
        /\ line[i] \in AppIdWords
        /\ line[i + 1] \in NumberWords
        /\ DigitCount(line[i + 1]) >= 3
        /\ DigitCount(line[i + 1]) <= 10}

MinOf(S) == CHOOSE x \in S : \A y \in S : x <= y

\* lines 159-160: m = APPID_RE.search(line); m and m.group(1) == appid
MentionsApp(line, id) ==
    /\ AppIdMatches(line) # {}
    /\ line[MinOf(AppIdMatches(line)) + 1] = id

\* lines 133-136
MatchesPause(line) ==
    \/ \E i \in 1..Len(line) : line[i] \in {"paused", "pause", "pausing", "suspend", "suspended"}
    \/ \E i \in 1..Len(line) : \E j \in (i + 1)..Len(line) :
          /\ line[i] \in {"stop", "stopped", "stopping"}
          /\ line[j] = "download"

\* lines 137-141
MatchesResume(line) ==
    \/ \E i \in 1..Len(line) : line[i] \in {"resume", "resuming", "unpause", "continuing"}
    \/ \E i \in 1..Len(line) : \E j \in (i + 1)..Len(line) :
          /\ line[i] \in {"start", "started", "starting"}
          /\ line[j] = "download"
    \/ \E i \in 1..Len(line) : line[i] = "downloading"

\* lines 143-146: positions where SPEED_RE matches (a number, then a unit)
SpeedMatches(line) ==
    {i \in 1..(Len(line) - 1) : line[i] \in NumberWords /\ line[i + 1] \in UnitWords}

Pow1024(n) == IF n = 1 THEN 1024 ELSE IF n = 2 THEN 1024 * 1024 ELSE 1024 * 1024 * 1024

\* lines 168-174
speed_to_bps(val, unit) ==
    IF unit \in {"Kbit/s", "Mbit/s", "Gbit/s"}
    THEN (val * Pow1024(CASE unit = "Kbit/s" -> 1 [] unit = "Mbit/s" -> 2 [] OTHER -> 3)) \div 8
    ELSE val * Pow1024(CASE unit = "KB/s" -> 1 [] unit = "MB/s" -> 2 [] OTHER -> 3)

\* lines 148-154: the last max_lines lines
tail_lines(lines, max_lines) ==
    IF Len(lines) <= max_lines THEN lines
    ELSE SubSeq(lines, Len(lines) - max_lines + 1, Len(lines))

RECURSIVE ScanStatusFirstMention(_, _, _)
ScanStatusFirstMention(lines, id, k) ==
    IF k = 0 THEN None
    ELSE IF ~MentionsApp(lines[k], id) THEN ScanStatusFirstMention(lines, id, k - 1)
    ELSE IF MatchesPause(lines[k]) THEN "PAUSED"
    ELSE IF MatchesResume(lines[k]) THEN "DOWNLOADING"
    ELSE None

\* lines 158-166: the loop over reversed(lines), at line k
RECURSIVE ScanStatus(_, _, _)
ScanStatus(lines, id, k) ==
    IF k = 0 THEN None
    ELSE IF ~MentionsApp(lines[k], id) THEN ScanStatus(lines, id, k - 1)
    ELSE IF MatchesPause(lines[k]) THEN "PAUSED"
    ELSE IF MatchesResume(lines[k]) THEN "DOWNLOADING"
    ELSE ScanStatus(lines, id, k - 1)

\* lines 156-166
infer_status_from_logs(content_log, id) ==
    LET lines == tail_lines(content_log, 8000)
    IN  ScanStatus(lines, id, Len(lines))

\* an absent speed is <<>>, a speed v is <<v>>
NoSpeed == <<>>

RECURSIVE ScanSpeedFirstMention(_, _, _)
ScanSpeedFirstMention(lines, id, k) ==
    IF k = 0 THEN NoSpeed
    ELSE IF ~MentionsApp(lines[k], id) THEN ScanSpeedFirstMention(lines, id, k - 1)
    ELSE IF SpeedMatches(lines[k]) = {} THEN NoSpeed
    ELSE LET i == MinOf(SpeedMatches(lines[k]))
         IN  <<speed_to_bps(NumberValue(lines[k][i]), lines[k][i + 1])>>

\* lines 178-191: the loop over reversed(lines), at line k
RECURSIVE ScanSpeed(_, _, _)
ScanSpeed(lines, id, k) ==
    IF k = 0 THEN NoSpeed
    ELSE IF ~MentionsApp(lines[k], id) THEN ScanSpeed(lines, id, k - 1)
    ELSE IF SpeedMatches(lines[k]) = {} THEN ScanSpeed(lines, id, k - 1)
    ELSE LET i == MinOf(SpeedMatches(lines[k]))
         IN  <<speed_to_bps(NumberValue(lines[k][i]), lines[k][i + 1])>>

\* lines 176-191
infer_speed_from_logs(content_log, id) ==
    LET lines == tail_lines(content_log, 8000)
    IN  ScanSpeed(lines, id, Len(lines))

\* the lines a log is made of
LogLines ==
    { <<"AppID", "100", "paused">>,
      <<"AppID", "100", "downloading">>,
      <<"AppID", "100", "x">>,
      <<"AppID", "200", "paused">>,
      <<"paused", "x">>,
      <<"AppID", "100", "1", "MB/s">>,
      <<"AppID", "100", "stopped", "download">>,
      <<"AppID", "100", "download", "stopped">>,
      <<"AppID", "100", "started", "download", "2", "Mbit/s">>,
      <<"AppID", "12", "AppID", "200", "downloading", "2", "KB/s">>,
      <<"AppID", "200", "AppID", "100", "paused">>,
      <<"AppID", "100", "paused", "downloading">> }

Logs == UNION {[1..n -> LogLines] : n \in 0..MaxLogLen}

InitLog ==
    /\ log \in Logs
    /\ target \in AppIds
    /\ status_res = None
    /\ speed_res = NoSpeed
    /\ inferred = {}

\* no log is being read
IdleLog ==
    /\ log = <<>>
    /\ target = ""
    /\ status_res = None
    /\ speed_res = NoSpeed
    /\ inferred = {}

\* a call of infer_status_from_logs
InferStatus ==
    /\ "status" \notin inferred
    /\ target \in AppIds
    /\ status_res' = infer_status_from_logs(log, target)
    /\ inferred' = inferred \cup {"status"}
    /\ UNCHANGED <<log, target, speed_res, loopVars, parseVars, manVars>>

\* a call of infer_speed_from_logs
InferSpeed ==
    /\ "speed" \notin inferred
    /\ target \in AppIds
    /\ speed_res' = infer_speed_from_logs(log, target)
    /\ inferred' = inferred \cup {"speed"}
    /\ UNCHANGED <<log, target, status_res, loopVars, parseVars, manVars>>

NextLog == InferStatus \/ InferSpeed

(***************************************************************************)
(* The key/value parser.  A text is a sequence of characters; a token is   *)
(* the string the code appends to tokens, with a note (q) of whether it    *)
(* came from a quoted string; the code itself compares only the string.    *)
(***************************************************************************)
MaxTextLen == 7

Quote == "\""

Chars == {Quote, "{", "}", "a"}

Texts == UNION {[1..n -> Chars] : n \in 0..MaxTextLen}

LB == <<"{">>

RB == <<"}">>

\* position of the first Quote of txt at or after p, 0 if there is none
RECURSIVE NextQuote(_, _)
NextQuote(txt, p) ==
    IF p > Len(txt) THEN 0
    ELSE IF txt[p] = Quote THEN p
    ELSE NextQuote(txt, p + 1)

\* lines 30, 33-40: _token_re.finditer(text) from position p on
RECURSIVE Tokenize(_, _)
Tokenize(txt, p) ==
    IF p > Len(txt) THEN <<>>
    ELSE IF txt[p] = Quote /\ NextQuote(txt, p + 1) # 0
         THEN <<[s |-> SubSeq(txt, p + 1, NextQuote(txt, p + 1) - 1), q |-> TRUE]>>
              \o Tokenize(txt, NextQuote(txt, p + 1) + 1)
    ELSE IF txt[p] = "{" THEN <<[s |-> LB, q |-> FALSE]>> \o Tokenize(txt, p + 1)
    ELSE IF txt[p] = "}" THEN <<[s |-> RB, q |-> FALSE]>> \o Tokenize(txt, p + 1)
    ELSE Tokenize(txt, p + 1)

\* line 46: obj = {}
EmptyObj == <<>>

\* lines 59 and 61: obj[key] = value.  An entry keeps the value (a string or a
\* mapping) and notes whether the key token and the value token were quoted.
Put(obj, key, entry) ==
    [k \in (DOMAIN obj) \cup {key} |-> IF k = key THEN entry ELSE obj[k]]

\* lines 44-63: parse_object entered with i (1-based) and the mapping built so
\* far; yields the mapping and the new i
RECURSIVE parse_object(_, _, _)
parse_object(tokens, i, obj) ==
    IF i > Len(tokens) THEN [obj |-> obj, i |-> i]
    ELSE IF tokens[i].s = RB THEN [obj |-> obj, i |-> i + 1]
    ELSE IF i + 1 > Len(tokens) THEN [obj |-> obj, i |-> i + 1]
    ELSE IF tokens[i + 1].s = LB
         THEN LET r == parse_object(tokens, i + 2, EmptyObj)
              IN  parse_object(tokens, r.i,
                               Put(obj, tokens[i].s,
                                   [kind |-> "obj", val |-> r.obj,
                                    kq |-> tokens[i].q, vq |-> tokens[i + 1].q]))
    ELSE parse_object(tokens, i + 2,
                      Put(obj, tokens[i].s,
                          [kind |-> "str", val |-> tokens[i + 1].s,
                           kq |-> tokens[i].q, vq |-> tokens[i + 1].q]))

\* lines 32-65
parse_keyvalues(txt) == parse_object(Tokenize(txt, 1), 1, EmptyObj).obj

InitParse ==
    /\ text \in Texts
    /\ cut = 0
    /\ full_tree = EmptyObj
    /\ prefix_tree = EmptyObj
    /\ parsed = {}

\* no text is being parsed
IdleParse ==
    /\ text = <<>>
    /\ cut = 0
    /\ full_tree = EmptyObj
    /\ prefix_tree = EmptyObj
    /\ parsed = {"idle"}

\* parse_keyvalues applied to the whole text
ParseFull ==
    /\ "idle" \notin parsed
    /\ "full" \notin parsed
    /\ full_tree' = parse_keyvalues(text)
    /\ parsed' = parsed \cup {"full"}
    /\ UNCHANGED <<text, cut, prefix_tree, loopVars, logVars, manVars>>

\* parse_keyvalues applied to the text cut after its first c characters
ParsePrefix ==
    /\ "idle" \notin parsed
    /\ "prefix" \notin parsed
    /\ \E c \in 0..Len(text) :
          /\ cut' = c
          /\ prefix_tree' = parse_keyvalues(SubSeq(text, 1, c))
    /\ parsed' = parsed \cup {"prefix"}
    /\ UNCHANGED <<text, full_tree, loopVars, logVars, manVars>>

NextParse == ParseFull \/ ParsePrefix

(***************************************************************************)
(* The manifest reader.  A manifest text is a concatenation of pieces      *)
(* (quoted keys, quoted values, braces); it is tokenized and parsed by the *)
(* parser above.                                                           *)
(***************************************************************************)
MaxPieces == 4

K_AppState == <<"A", "p", "p", "S", "t", "a", "t", "e">>

K_name == <<"n", "a", "m", "e">>

K_BytesDownloaded == <<"B", "y", "t", "e", "s", "D", "o", "w", "n", "l", "o", "a", "d", "e", "d">>

K_BytesToDownload == <<"B", "y", "t", "e", "s", "T", "o", "D", "o", "w", "n", "l", "o", "a", "d">>

K_StateFlags == <<"S", "t", "a", "t", "e", "F", "l", "a", "g", "s">>

K_BytesStaged == <<"B", "y", "t", "e", "s", "S", "t", "a", "g", "e", "d">>

K_BytesToStage == <<"B", "y", "t", "e", "s", "T", "o", "S", "t", "a", "g", "e">>

K_BytesCommitted == <<"B", "y", "t", "e", "s", "C", "o", "m", "m", "i", "t", "t", "e", "d">>

K_SizeOnDisk == <<"S", "i", "z", "e", "O", "n", "D", "i", "s", "k">>

Quoted(s) == <<Quote>> \o s \o <<Quote>>

\* what a manifest text is made of
Pieces ==
    { Quoted(K_AppState), LB, RB,
      Quoted(K_BytesDownloaded), Quoted(K_SizeOnDisk), Quoted(K_name),
      Quoted(<<"1", "2">>), Quoted(<<"-", "5">>), Quoted(<<" ", "7">>), Quoted(<<"x">>) }

RECURSIVE Concat(_)
Concat(ps) == IF ps = <<>> THEN <<>> ELSE Head(ps) \o Concat(Tail(ps))

ManifestTexts == {Concat(ps) : ps \in UNION {[1..n -> Pieces] : n \in 0..MaxPieces}}

DigitChars == <<"0", "1", "2", "3", "4", "5", "6", "7", "8", "9">>

IsDigit(c) == \E d \in 1..10 : DigitChars[d] = c

DigitValue(c) == (CHOOSE d \in 1..10 : DigitChars[d] = c) - 1

\* str.strip as int() applies it: blanks at both ends are dropped
RECURSIVE StripBlanks(_)
StripBlanks(s) ==
    IF s = <<>> THEN s
    ELSE IF Head(s) = " " THEN StripBlanks(Tail(s))
    ELSE IF s[Len(s)] = " " THEN StripBlanks(SubSeq(s, 1, Len(s) - 1))
    ELSE s

\* digits with single underscores between them
DigitString(s) ==
    /\ s # <<>>
    /\ IsDigit(s[1])
    /\ IsDigit(s[Len(s)])
    /\ \A p \in 1..Len(s) : IsDigit(s[p]) \/ s[p] = "_"
    /\ \A p \in 1..(Len(s) - 1) : ~(s[p] = "_" /\ s[p + 1] = "_")

RECURSIVE DigitsValue(_, _)
DigitsValue(s, acc) ==
    IF s = <<>> THEN acc
    ELSE IF Head(s) = "_" THEN DigitsValue(Tail(s), acc)
    ELSE DigitsValue(Tail(s), 10 * acc + DigitValue(Head(s)))

\* int(s) for a string s: <<v>> for the value v, <<>> when int raises ValueError
IntOfString(s) ==
    LET b == StripBlanks(s)
        signed == b # <<>> /\ Head(b) \in {"-", "+"}
        d == IF signed THEN Tail(b) ELSE b
    IN  IF ~DigitString(d) THEN <<>>
        ELSE IF signed /\ Head(b) = "-" THEN <<0 - DigitsValue(d, 0)>>
        ELSE <<DigitsValue(d, 0)>>

Absent == [kind |-> "none"]

\* dict.get(key): the entry, or Absent for Python's None
Get(obj, key) == IF key \in DOMAIN obj THEN obj[key] ELSE Absent

\* lines 113-117: str(None) is "None" and str of a mapping starts with a
\* brace, so int raises for both and 0 is returned
to_int(x) ==
    IF x.kind # "str" THEN 0
    ELSE IF IntOfString(x.val) = <<>> THEN 0
    ELSE IntOfString(x.val)[1]

\* lines 111 and 119: f"AppID {appid}"
Placeholder(id) == <<"A", "p", "p", "I", "D", " ">> \o id

\* lines 67-72: an unreadable or missing file gives the empty mapping
load_kv_file(file) == IF file.readable THEN parse_keyvalues(file.text) ELSE EmptyObj

\* line 122: str(app.get("StateFlags", "")); the repr of a mapping is kept as braces
StateFlagsOf(app) ==
    LET x == Get(app, K_StateFlags)
    IN  IF x.kind = "none" THEN <<>> ELSE IF x.kind = "str" THEN x.val ELSE <<"{", "}">>

\* lines 106-129
get_app_info(id, file) ==
    LET kv == load_kv_file(file)
        app == Get(kv, K_AppState)
    IN  IF app.kind # "obj"
        THEN [name |-> Placeholder(id), bd |-> 0, btd |-> 0, sf |-> <<>>,
              bs |-> 0, bts |-> 0, bc |-> 0, sod |-> 0]
        ELSE [name |-> IF Get(app.val, K_name).kind = "str"
                       THEN Get(app.val, K_name).val ELSE Placeholder(id),
              bd |-> to_int(Get(app.val, K_BytesDownloaded)),
              btd |-> to_int(Get(app.val, K_BytesToDownload)),
              sf |-> StateFlagsOf(app.val),
              bs |-> to_int(Get(app.val, K_BytesStaged)),
              bts |-> to_int(Get(app.val, K_BytesToStage)),
              bc |-> to_int(Get(app.val, K_BytesCommitted)),
              sod |-> to_int(Get(app.val, K_SizeOnDisk))]

ManifestIds == {<<"1", "0", "0">>, <<"2", "0", "0">>}

NoInfo == [name |-> <<>>, bd |-> 0, btd |-> 0, sf |-> <<>>, bs |-> 0, bts |-> 0, bc |-> 0, sod |-> 0]

InitManifest ==
    /\ manifest \in [id : ManifestIds, readable : BOOLEAN, text : ManifestTexts]
    /\ manifest.readable \/ manifest.text = <<>>
    /\ info = NoInfo
    /\ info_done = FALSE

\* no manifest is being read
IdleManifest ==
    /\ manifest = [id |-> <<>>, readable |-> FALSE, text |-> <<>>]
    /\ info = NoInfo
    /\ info_done = TRUE

\* a call of get_app_info
ReadManifest ==
    /\ ~info_done
    /\ info' = get_app_info(manifest.id, manifest)
    /\ info_done' = TRUE
    /\ UNCHANGED <<manifest, loopVars, logVars, parseVars>>

NextManifest == ReadManifest

Init == InitLoop /\ IdleLog /\ IdleParse /\ IdleManifest

Next == SleepRaises \/ TickBreak \/ TickResync \/ TickEval \/ LoopExit

Spec == Init /\ [][Next]_vars

StartLog == IdleLoop /\ InitLog /\ IdleParse /\ IdleManifest

SpecLog == StartLog /\ [][NextLog]_vars

StartParse == IdleLoop /\ IdleLog /\ InitParse /\ IdleManifest

SpecParse == StartParse /\ [][NextParse]_vars

StartManifest == IdleLoop /\ IdleLog /\ IdleParse /\ InitManifest

SpecManifest == StartManifest /\ [][NextManifest]_vars

\* the loop runs in one thread and every sleep ends: a step that can be taken is taken
FairSpec == Spec /\ WF_vars(Next)

(***************************************************************************)
(* Properties of the polling loop.                                         *)
(***************************************************************************)
Labels == {"PAUSED", "DOWNLOADING", "WAITING/STOPPED", "UNKNOWN"}

\* C1: on every evaluated tick the printed label follows the precedence
\* PAUSED from the log, DOWNLOADING from the log, then with no log signal:
\* no-network streak >= 2 gives WAITING/STOPPED whatever the no-progress
\* streak is, no-progress streak >= 2 alone gives DOWNLOADING, both below 2
\* gives UNKNOWN; the streaks are the ones after the tick's update.
C1_StatusPrecedence ==
    lastKind = "eval" =>
        /\ status \in Labels
        /\ seen.log_status = "PAUSED" => status = "PAUSED"
        /\ seen.log_status = "DOWNLOADING" => status = "DOWNLOADING"
        /\ (seen.log_status = None /\ no_net_streak >= 2) => status = "WAITING/STOPPED"
        /\ (seen.log_status = None /\ no_net_streak < 2 /\ no_download_progress_streak >= 2)
              => status = "DOWNLOADING"
        /\ (seen.log_status = None /\ no_net_streak < 2 /\ no_download_progress_streak < 2)
              => status = "UNKNOWN"

C1_Witness ==
    /\ lastKind = "eval"
    /\ seen.log_status = None
    /\ no_net_streak >= 2
    /\ no_download_progress_streak >= 2
    /\ status = "WAITING/STOPPED"

C4_Outcome ==
    pc # "loop" =>
        \/ /\ pc = "raised"
           /\ interval < 0
           /\ minute_idx = 1
           /\ printed = 0
        \/ /\ pc = "done"
           /\ lastKind = "break"
           /\ interval >= 0
           /\ minute_idx <= minutes
           /\ printed = minute_idx - 1 - resyncs
        \/ /\ pc = "done"
           /\ lastKind # "break"
           /\ minute_idx = Max(minutes, 0)
           /\ printed = minute_idx - resyncs

C5_Amended ==
    [][ /\ (minute_idx' # minute_idx /\ seen'.first # NoFirst /\ seen'.first # <<appid, lib>>)
            => /\ lastKind' = "resync"
               /\ <<appid', lib'>> = seen'.first
               /\ no_net_streak' = 0
               /\ no_download_progress_streak' = 0
               /\ last_bd' = seen'.bd
               /\ net0' = seen'.recv
               /\ t0' = seen'.t
               /\ printed' = printed
        /\ (lastKind = "resync" /\ lastKind' = "eval")
            => /\ no_net_streak' = (IF seen'.recv <= net0 THEN 1 ELSE 0)
               /\ no_download_progress_streak' = (IF seen'.bd = last_bd THEN 1 ELSE 0)
      ]_vars

C5_Witness ==
    /\ lastKind = "eval"
    /\ prevKind = "resync"
    /\ no_net_streak = 1
    /\ no_download_progress_streak = 1

\* C5 (as claimed): both streaks are 0 on the evaluated tick that follows a
\* resynchronization tick.
C5_Original ==
    (lastKind = "eval" /\ prevKind = "resync")
        => (no_net_streak = 0 /\ no_download_progress_streak = 0)

C9_Claim ==
    [][ /\ (lastKind' = "eval" /\ minute_idx' # minute_idx)
            => /\ no_net_streak' =
                     (IF seen'.recv # net0 THEN 0 ELSE no_net_streak + 1)
               /\ no_download_progress_streak' =
                     (IF seen'.bd # last_bd THEN 0 ELSE no_download_progress_streak + 1)
        /\ (lastKind' \notin {"eval", "resync"})
            => UNCHANGED <<no_net_streak, no_download_progress_streak>>
      ]_vars

(***************************************************************************)
(* Properties of the log heuristics.                                       *)
(***************************************************************************)
MaxOf(S) == CHOOSE x \in S : \A y \in S : x >= y

Mentioning == {k \in 1..Len(log) : MentionsApp(log[k], target)}

Telling == {k \in Mentioning : MatchesPause(log[k]) \/ MatchesResume(log[k])}

Rated == {k \in Mentioning : SpeedMatches(log[k]) # {}}

LineSpeed(line) ==
    speed_to_bps(NumberValue(line[MinOf(SpeedMatches(line))]),
                 line[MinOf(SpeedMatches(line)) + 1])

\* C2 (amended): the status comes from the most recent line that mentions the
\* target and matches a pause or resume pattern: PAUSED if it matches a pause
\* pattern, DOWNLOADING otherwise; it is None exactly when no line that
\* mentions the target matches any pattern.
C2_Amended ==
    "status" \in inferred =>
        IF Telling = {} THEN status_res = None
        ELSE status_res = (IF MatchesPause(log[MaxOf(Telling)]) THEN "PAUSED" ELSE "DOWNLOADING")

C2_Witness ==
    /\ "status" \in inferred
    /\ Telling # {}
    /\ MaxOf(Mentioning) > MaxOf(Telling)
    /\ status_res = "PAUSED"

\* C2 (as claimed): only the most recent line that mentions the target is
\* consulted, whatever it matches.
C2_Original ==
    ("status" \in inferred /\ Mentioning # {}) =>
        status_res = (IF MatchesPause(log[MaxOf(Mentioning)]) THEN "PAUSED"
                      ELSE IF MatchesResume(log[MaxOf(Mentioning)]) THEN "DOWNLOADING"
                      ELSE None)

RECURSIVE Subtree(_, _)
Subtree(p, f) ==
    \A k \in DOMAIN p :
        /\ k \in DOMAIN f
        /\ p[k].kind = f[k].kind
        /\ IF p[k].kind = "str" THEN p[k].val = f[k].val
           ELSE Subtree(p[k].val, f[k].val)

RECURSIVE TreeSize(_)
TreeSize(t) ==
    IF DOMAIN t = {} THEN 0
    ELSE LET k == CHOOSE x \in DOMAIN t : TRUE
             rest == [x \in (DOMAIN t) \ {k} |-> t[x]]
         IN  1 + (IF t[k].kind = "obj" THEN TreeSize(t[k].val) ELSE 0) + TreeSize(rest)

\* where the mapping that starts at token i ends (the index after it), 0 if
\* the tokens from i on are not a sequence of  key value  and  key { ... }
RECURSIVE GrammarEnd(_, _, _)
GrammarEnd(toks, i, nested) ==
    IF i > Len(toks) THEN (IF nested THEN 0 ELSE i)
    ELSE IF ~toks[i].q
         THEN (IF toks[i].s = RB /\ nested THEN i + 1 ELSE 0)
    ELSE IF i + 1 > Len(toks) THEN 0
    ELSE IF toks[i + 1].q THEN GrammarEnd(toks, i + 2, nested)
    ELSE IF toks[i + 1].s = LB
         THEN LET r == GrammarEnd(toks, i + 2, TRUE)
              IN  IF r = 0 THEN 0 ELSE GrammarEnd(toks, r, nested)
    ELSE 0

QuoteCount(txt) == Cardinality({p \in 1..Len(txt) : txt[p] = Quote})

KeyCount(toks) ==
    Cardinality({i \in 1..Len(toks) : toks[i].q \/ toks[i].s = LB}) \div 2

\* a valid text: every quote is paired, the tokens are balanced key/value
\* pairs and groups, and no key occurs twice in a mapping
ValidText(txt) ==
    /\ QuoteCount(txt) % 2 = 0
    /\ GrammarEnd(Tokenize(txt, 1), 1, FALSE) = Len(Tokenize(txt, 1)) + 1
    /\ TreeSize(parse_keyvalues(txt)) = KeyCount(Tokenize(txt, 1))

\* C7 (as claimed): the tree parsed from a prefix of a valid text is a subtree
\* of the tree parsed from the whole text.
C7_Claim ==
    (parsed = {"full", "prefix"} /\ ValidText(text)) => Subtree(prefix_tree, full_tree)

RECURSIVE WellSourced(_)
WellSourced(t) ==
    \A k \in DOMAIN t :
        /\ t[k].kq
        /\ IF t[k].kind = "str" THEN t[k].vq
           ELSE ~t[k].vq /\ WellSourced(t[k].val)

\* C10 (as claimed): every stored key and every leaf value comes from a
\* quoted-string token, a nested mapping only from an opening brace after a
\* key, and no brace token is stored as a key or a value.
C10_Claim ==
    "full" \in parsed => WellSourced(full_tree)

(***************************************************************************)
(* Properties of the manifest reader.                                      *)
(***************************************************************************)
NumericFields == {"bd", "btd", "bs", "bts", "bc", "sod"}

HasAppState ==
    /\ manifest.readable
    /\ Get(parse_keyvalues(manifest.text), K_AppState).kind = "obj"

\* C8 (as claimed): every numeric field of the record is a non-negative
\* integer, and without a readable manifest holding an AppState mapping all of
\* them are 0 and the name is the placeholder.
C8_Claim ==
    (info_done /\ manifest.id # <<>>) =>
        /\ \A f \in NumericFields : info[f] \in Nat
        /\ ~HasAppState =>
              /\ \A f \in NumericFields : info[f] = 0
              /\ info.name = Placeholder(manifest.id)

====
